---- MODULE Spec2Model ----
(***************************************************************************)
(* Books scraper (books.toscrape.com): fetcher.py, parser.py, main.py and  *)
(* saver.py as state machines.                                             *)
(*                                                                         *)
(* Text is a sequence of one-character strings, so that lower(), strip(),  *)
(* substring search and split() are computed as Python computes them.      *)
(* The pound sign is the character "GBP".  A document is a sequence of     *)
(* nodes (what BeautifulSoup's tree holds); Render gives the text that the *)
(* server sends for it, and the parser reads the nodes.                    *)
(***************************************************************************)
EXTENDS Integers, Sequences, FiniteSets, TLC

(* ------------------------------ bounds -------------------------------- *)
\* body nodes of a generated document
MaxNodes == 2

(* ------------------------- Python str primitives ---------------------- *)
UpperCase == <<"A", "B", "C", "D", "E", "F", "G", "H", "I", "J", "K", "L", "M", "N", "O", "P", "Q", "R", "S", "T", "U", "V", "W", "X", "Y", "Z">>
LowerCase == <<"a", "b", "c", "d", "e", "f", "g", "h", "i", "j", "k", "l", "m", "n", "o", "p", "q", "r", "s", "t", "u", "v", "w", "x", "y", "z">>
Whitespace == {" ", "\n", "\t"}

\* optional values: <<>> is None, <<x>> is x
None == <<>>
Some(x) == <<x>>

LowerChar(c) ==
    IF \E i \in 1..26 : UpperCase[i] = c
    THEN LowerCase[CHOOSE i \in 1..26 : UpperCase[i] = c]
    ELSE c

\* str.lower() (the concatenation makes it a tuple)
Lower(s) == <<>> \o [i \in 1..Len(s) |-> LowerChar(s[i])]

MatchAt(s, sub, i) == \A j \in 1..Len(sub) : s[i + j - 1] = sub[j]

\* sub in s
Contains(s, sub) == \E i \in 1..(Len(s) - Len(sub) + 1) : MatchAt(s, sub, i)

\* index of the first occurrence of sub in s, 0 when there is none
Find(s, sub) ==
    IF Contains(s, sub)
    THEN CHOOSE i \in 1..(Len(s) - Len(sub) + 1) :
            /\ MatchAt(s, sub, i)
            /\ \A k \in 1..(i - 1) : ~MatchAt(s, sub, k)
    ELSE 0

\* s.split(sep)[0]
SplitHead(s, sep) ==
    IF Find(s, sep) = 0 THEN s ELSE SubSeq(s, 1, Find(s, sep) - 1)

\* what follows the first occurrence of sep (sep occurs in s)
AfterFirst(s, sep) == SubSeq(s, Find(s, sep) + Len(sep), Len(s))

\* s.split(sep)[1], for s that contains sep
SplitSecond(s, sep) == SplitHead(AfterFirst(s, sep), sep)

\* str.strip()
Strip(s) ==
    IF \A i \in 1..Len(s) : s[i] \in Whitespace THEN <<>>
    ELSE SubSeq(s,
                CHOOSE i \in 1..Len(s) :
                    s[i] \notin Whitespace /\ \A k \in 1..(i - 1) : s[k] \in Whitespace,
                CHOOSE i \in 1..Len(s) :
                    s[i] \notin Whitespace /\ \A k \in (i + 1)..Len(s) : s[k] \in Whitespace)

(* ------------------------------ documents ----------------------------- *)
\* length below which is_page_not_found takes a page for an error stub
ShortPageThreshold == 500

Repeat(c, n) == [i \in 1..n |-> c]

TextNode(chars) == [kind |-> "text", chars |-> chars]
\* n times the character c
FillNode(c, n) == [kind |-> "fill", c |-> c, n |-> n]
TitleNode(attrs, chars) == [kind |-> "title", attrs |-> attrs, chars |-> chars]
\* a record container; h3: it has a heading, a: the heading has a link,
\* title: the link's title attribute, price: the text of p.price_color,
\* href: the link's href attribute
Article(h3, a, title, price) ==
    [kind |-> "article", h3 |-> h3, a |-> a, title |-> title, price |-> price,
     href |-> Some(<<"b", ".", "h", "t", "m", "l">>)]

\* the container n with another href attribute on its link, or with none
Linked(n, href) == [n EXCEPT !.href = href]

\* the product of a detail page: the texts of its h1, p.price_color and
\* p.instock.availability, the rows of its table (th and td texts), its
\* p.star-rating with its classes, and its div#product_description: None,
\* Some(None) for a div that no p follows, Some(Some(text)) for the p's text
Product(h1, price, availability, table, description, rating) ==
    [kind |-> "product", h1 |-> h1, price |-> price,
     availability |-> availability, table |-> table,
     description |-> description, rating |-> rating]

RenderHref(h) == IF h = None THEN <<>> ELSE <<" ", "h", "r", "e", "f", "=", "\"">> \o h[1] \o <<"\"">>

Element(open, content, close) ==
    IF content = None THEN <<>> ELSE open \o content[1] \o close

RECURSIVE Joined(_, _)
Joined(words, sep) ==
    IF words = <<>> THEN <<>>
    ELSE IF Len(words) = 1 THEN Head(words)
    ELSE Head(words) \o sep \o Joined(Tail(words), sep)

RECURSIVE RenderRows(_)
RenderRows(rows) ==
    IF rows = <<>> THEN <<>>
    ELSE <<"<", "t", "r", ">">> \o Element(<<"<", "t", "h", ">">>, Head(rows).th, <<"<", "/", "t", "h", ">">>)
         \o Element(<<"<", "t", "d", ">">>, Head(rows).td, <<"<", "/", "t", "d", ">">>) \o <<"<", "/", "t", "r", ">">>
         \o RenderRows(Tail(rows))

RenderProduct(n) ==
    <<"<", "a", "r", "t", "i", "c", "l", "e", " ", "c", "l", "a", "s", "s", "=", "\"", "p", "r", "o", "d", "u", "c", "t", "_", "p", "a", "g", "e", "\"", ">">>
    \o Element(<<"<", "h", "1", ">">>, n.h1, <<"<", "/", "h", "1", ">">>)
    \o Element(<<"<", "p", " ", "c", "l", "a", "s", "s", "=", "\"", "p", "r", "i", "c", "e", "_", "c", "o", "l", "o", "r", "\"", ">">>, n.price, <<"<", "/", "p", ">">>)
    \o Element(<<"<", "p", " ", "c", "l", "a", "s", "s", "=", "\"", "i", "n", "s", "t", "o", "c", "k", " ", "a", "v", "a", "i", "l", "a", "b", "i", "l", "i", "t", "y", "\"", ">">>, n.availability, <<"<", "/", "p", ">">>)
    \o (IF n.table = None THEN <<>>
        ELSE <<"<", "t", "a", "b", "l", "e", " ", "c", "l", "a", "s", "s", "=", "\"", "t", "a", "b", "l", "e", " ", "t", "a", "b", "l", "e", "-", "s", "t", "r", "i", "p", "e", "d", "\"", ">">> \o RenderRows(n.table[1])
             \o <<"<", "/", "t", "a", "b", "l", "e", ">">>)
    \o (IF n.rating = None THEN <<>>
        ELSE <<"<", "p", " ", "c", "l", "a", "s", "s", "=", "\"">> \o Joined(n.rating[1], <<" ">>) \o <<"\"", ">", "<", "/", "p", ">">>)
    \o (IF n.description = None THEN <<>>
        ELSE <<"<", "d", "i", "v", " ", "i", "d", "=", "\"", "p", "r", "o", "d", "u", "c", "t", "_", "d", "e", "s", "c", "r", "i", "p", "t", "i", "o", "n", "\"", ">", "<", "/", "d", "i", "v", ">">>
             \o Element(<<"<", "p", ">">>, n.description[1], <<"<", "/", "p", ">">>))
    \o <<"<", "/", "a", "r", "t", "i", "c", "l", "e", ">">>

RenderTitleAttr(t) == IF t = None THEN <<>> ELSE <<" ", "t", "i", "t", "l", "e", "=", "\"">> \o t[1] \o <<"\"">>

RenderNode(n) ==
    CASE n.kind = "text" -> n.chars
      [] n.kind = "fill" -> Repeat(n.c, n.n)
      [] n.kind = "title" ->
            (IF n.attrs THEN <<"<", "t", "i", "t", "l", "e", " ", "l", "a", "n", "g", "=", "\"", "e", "n", "\"", ">">> ELSE <<"<", "t", "i", "t", "l", "e", ">">>)
            \o n.chars \o <<"<", "/", "t", "i", "t", "l", "e", ">">>
      [] n.kind = "article" ->
            <<"<", "a", "r", "t", "i", "c", "l", "e", " ", "c", "l", "a", "s", "s", "=", "\"", "p", "r", "o", "d", "u", "c", "t", "_", "p", "o", "d", "\"", ">">>
            \o (IF n.h3
                THEN <<"<", "h", "3", ">">>
                     \o (IF n.a
                         THEN <<"<", "a">> \o RenderHref(n.href) \o RenderTitleAttr(n.title)
                              \o <<">", "b", "o", "o", "k", "<", "/", "a", ">">>
                         ELSE <<>>)
                     \o <<"<", "/", "h", "3", ">">>
                ELSE <<>>)
            \o (IF n.price = None THEN <<>>
                ELSE <<"<", "p", " ", "c", "l", "a", "s", "s", "=", "\"", "p", "r", "i", "c", "e", "_", "c", "o", "l", "o", "r", "\"", ">">> \o n.price[1] \o <<"<", "/", "p", ">">>)
            \o <<"<", "/", "a", "r", "t", "i", "c", "l", "e", ">">>
      [] n.kind = "product" -> RenderProduct(n)

RECURSIVE Render(_)
Render(nodes) ==
    IF nodes = <<>> THEN <<>>
    ELSE RenderNode(Head(nodes)) \o Render(Tail(nodes))

\* html_content is None or Some(nodes); Text is the str the program holds
Text(html_content) == Render(html_content[1])

\* the node renders as no character at all
EmptyNode(n) ==
    CASE n.kind = "text" -> n.chars = <<>>
      [] n.kind = "fill" -> n.n = 0
      [] OTHER -> FALSE

\* "not html_content": None or the empty str
Falsy(html_content) ==
    \/ html_content = None
    \/ \A i \in 1..Len(html_content[1]) : EmptyNode(html_content[1][i])

(* ------------------------------ parser.py ----------------------------- *)
\* the book_info dictionary of one container, as the set of its keys and
\* their values
BookInfo(n) ==
    [hasTitle |-> n.a,
     Title    |-> IF n.a THEN Strip(IF n.title = None THEN <<>> ELSE n.title[1])
                  ELSE <<>>,
     hasPrice |-> n.price # None,
     Price    |-> IF n.price = None THEN <<>> ELSE Strip(n.price[1])]

Containers(nodes) == SelectSeq(nodes, LAMBDA n : n.kind = "article")

RECURSIVE BooksOf(_)
BooksOf(containers) ==
    IF containers = <<>> THEN <<>>
    ELSE LET info == BookInfo(Head(containers)) IN
         (IF info.hasTitle /\ info.hasPrice
          THEN <<[Title |-> info.Title, Price |-> info.Price]>>
          ELSE <<>>)
         \o BooksOf(Tail(containers))

\* parse_books_from_html: raised is the AttributeError of book.find('h3')
\* returning None
parse_books_from_html(html_content) ==
    IF Falsy(html_content) THEN [raised |-> FALSE, books |-> <<>>]
    ELSE LET containers == Containers(html_content[1]) IN
         IF \E i \in 1..Len(containers) : ~containers[i].h3
         THEN [raised |-> TRUE, books |-> <<>>]
         ELSE [raised |-> FALSE, books |-> BooksOf(containers)]

(* ------------------------------- main.py ------------------------------ *)
not_found_indicators ==
    << <<"p", "a", "g", "e", " ", "n", "o", "t", " ", "f", "o", "u", "n", "d">>,
       <<"4", "0", "4", " ", "n", "o", "t", " ", "f", "o", "u", "n", "d">>,
       <<"e", "r", "r", "o", "r", " ", "4", "0", "4">>,
       <<"s", "o", "r", "r", "y", ",", " ", "n", "o", " ", "r", "e", "s", "u", "l", "t", "s", " ", "f", "o", "u", "n", "d">>,
       <<"n", "o", " ", "r", "e", "s", "u", "l", "t", "s", " ", "f", "o", "u", "n", "d">> >>

is_page_not_found(html_content) ==
    IF Falsy(html_content) THEN TRUE
    ELSE LET text == Text(html_content)
             content_lower == Lower(text) IN
         IF \E k \in 1..Len(not_found_indicators) :
                Contains(content_lower, not_found_indicators[k])
         THEN TRUE
         ELSE IF Len(Strip(text)) < ShortPageThreshold THEN TRUE
         ELSE IF /\ Contains(content_lower, <<"<", "t", "i", "t", "l", "e", ">">>)
                 /\ Contains(SplitHead(SplitSecond(content_lower, <<"<", "t", "i", "t", "l", "e", ">">>),
                                       <<"<", "/", "t", "i", "t", "l", "e", ">">>), <<"4", "0", "4">>)
         THEN TRUE
         ELSE FALSE

(* ------------------------ parser.py: clean_price ---------------------- *)
\* the characters of the class [£$€¥Â]
CurrencyGlyphs == {"GBP", "$", "EUR", "YEN", "A^"}
Digits == {"0", "1", "2", "3", "4", "5", "6", "7", "8", "9"}

AllDigits(s) == \A i \in 1..Len(s) : s[i] \in Digits

RECURSIVE DropLeadingZeros(_)
DropLeadingZeros(s) ==
    IF Len(s) > 1 /\ Head(s) = "0" THEN DropLeadingZeros(Tail(s)) ELSE s

RECURSIVE DropTrailingZeros(_)
DropTrailingZeros(s) ==
    IF Len(s) > 1 /\ s[Len(s)] = "0"
    THEN DropTrailingZeros(SubSeq(s, 1, Len(s) - 1)) ELSE s

\* float(s) for a decimal numeral without exponent, "nan" and "inf": None
\* for the ValueError, else Some of the float, written as Python's repr
\* writes it (51.77, 12.0, -0.5, nan, inf)
ParseFloat(s) ==
    LET signed == s # <<>> /\ s[1] \in {"+", "-"}
        minus == IF s # <<>> /\ s[1] = "-" THEN <<"-">> ELSE <<>>
        body == IF signed THEN Tail(s) ELSE s
        dot == Find(body, <<".">>)
        ip == IF dot = 0 THEN body ELSE SubSeq(body, 1, dot - 1)
        fp == IF dot = 0 THEN <<>> ELSE SubSeq(body, dot + 1, Len(body))
    IN  IF AllDigits(ip) /\ AllDigits(fp) /\ Len(ip) + Len(fp) > 0
        THEN Some(minus
                  \o DropLeadingZeros(IF ip = <<>> THEN <<"0">> ELSE ip)
                  \o <<".">>
                  \o DropTrailingZeros(IF fp = <<>> THEN <<"0">> ELSE fp))
        ELSE IF Lower(body) = <<"n", "a", "n">> THEN Some(<<"n", "a", "n">>)
        ELSE IF Lower(body) \in {<<"i", "n", "f">>, <<"i", "n", "f", "i", "n", "i", "t", "y">>} THEN Some(minus \o <<"i", "n", "f">>)
        ELSE None

\* a cell of a DataFrame: a str, a float or an int (v is its text), or NaN
StrCell(v) == [t |-> "str", v |-> v]
FloatCell(v) == [t |-> "float", v |-> v]
IntCell(v) == [t |-> "int", v |-> v]
NaN == [t |-> "float", v |-> <<"n", "a", "n">>]
NoneCell == [t |-> "NoneType", v |-> <<>>]

\* clean_price, applied to a cell of the Price column; raised is the
\* TypeError of re.sub on a value that is not a str
clean_price(price_str) ==
    IF price_str = NoneCell \/ price_str = StrCell(<<>>)
    THEN [raised |-> FALSE, value |-> <<"0", ".", "0">>]
    ELSE IF price_str.t # "str" THEN [raised |-> TRUE, value |-> <<"0", ".", "0">>]
    ELSE LET cleaned == Strip(SelectSeq(price_str.v, LAMBDA c : c \notin CurrencyGlyphs))
             parsed == ParseFloat(cleaned)
         IN [raised |-> FALSE,
             value |-> IF parsed = None THEN <<"0", ".", "0">> ELSE parsed[1]]

(* ------------------------------ saver.py ------------------------------ *)
\* column names
Title == <<"T", "i", "t", "l", "e">>
Price == <<"P", "r", "i", "c", "e">>
Availability == <<"A", "v", "a", "i", "l", "a", "b", "i", "l", "i", "t", "y">>
Reviews == <<"N", "u", "m", "b", "e", "r", " ", "o", "f", " ", "r", "e", "v", "i", "e", "w", "s">>
Price_Numeric == <<"P", "r", "i", "c", "e", "_", "N", "u", "m", "e", "r", "i", "c">>
Scraped_At == <<"S", "c", "r", "a", "p", "e", "d", "_", "A", "t">>

\* a record is a dict: a sequence of <<key, value>> in insertion order
Keys(rec) == [i \in 1..Len(rec) |-> rec[i][1]]
InSeq(x, s) == \E i \in 1..Len(s) : s[i] = x
IndexIn(x, s) == CHOOSE i \in 1..Len(s) : s[i] = x

\* s followed by the elements of t it does not hold yet
RECURSIVE AddNew(_, _)
AddNew(s, t) ==
    IF t = <<>> THEN s
    ELSE AddNew(IF InSeq(Head(t), s) THEN s ELSE Append(s, Head(t)), Tail(t))

\* the columns of pd.DataFrame(data): the keys in order of first appearance
RECURSIVE Columns(_)
Columns(data) ==
    IF data = <<>> THEN <<>>
    ELSE AddNew(Keys(Head(data)), Columns(Tail(data)))

Lookup(rec, key) ==
    IF InSeq(key, Keys(rec)) THEN StrCell(rec[IndexIn(key, Keys(rec))][2]) ELSE NaN

\* pd.DataFrame(data)
DataFrame(data) ==
    LET cols == Columns(data) IN
    [columns |-> cols,
     rows |-> [i \in 1..Len(data) |-> [j \in 1..Len(cols) |-> Lookup(data[i], cols[j])]]]

\* df[name] = values: a new last column, or the column of that name replaced
SetColumn(df, name, values) ==
    IF InSeq(name, df.columns)
    THEN [df EXCEPT !.rows = [i \in 1..Len(df.rows) |->
                [df.rows[i] EXCEPT ![IndexIn(name, df.columns)] = values[i]]]]
    ELSE [columns |-> Append(df.columns, name),
          rows |-> [i \in 1..Len(df.rows) |-> Append(df.rows[i], values[i])]]

\* what to_csv writes for a cell: NaN as the empty field
CellText(cell) == IF cell = NaN THEN <<>> ELSE cell.v

\* the lines df.to_csv(header=header, index=False) writes
CsvLines(df, header) ==
    (IF header THEN <<df.columns>> ELSE <<>>)
    \o [i \in 1..Len(df.rows) |->
            [j \in 1..Len(df.columns) |-> CellText(df.rows[i][j])]]

\* a header that is written on every call
WriteHeader_Always(append, exists) == TRUE

\* "header = not (append and os.path.exists(filename))"
WriteHeader(append, exists) == ~(append /\ exists)

\* a to_csv that opens the file in mode 'a' whatever append is
to_csv_ModeA(df, file, append) ==
    LET new == CsvLines(df, WriteHeader(append, file # None)) IN
    IF file # None THEN Some(file[1] \o new) ELSE Some(new)

\* a to_csv that opens the file in mode 'w' whatever append is
to_csv_ModeW(df, file, append) ==
    Some(CsvLines(df, WriteHeader(append, file # None)))

\* the file after df.to_csv(filename, mode=..., header=...); a file is None
\* (absent) or Some(lines)
to_csv(df, file, append) ==
    LET new == CsvLines(df, WriteHeader(append, file # None)) IN
    IF append /\ file # None THEN Some(file[1] \o new) ELSE Some(new)

\* a save_to_csv without the "if not data" return
save_to_csv_NoEmptyCheck(data, file, append, io) ==
    IF io # "ok" THEN [ok |-> FALSE, file |-> file]
    ELSE [ok |-> TRUE, file |-> to_csv(DataFrame(data), file, append)]

\* save_to_csv(data, filename, append), io being what the file system does
save_to_csv(data, file, append, io) ==
    IF data = <<>> THEN [ok |-> FALSE, file |-> file]
    ELSE IF io # "ok" THEN [ok |-> FALSE, file |-> file]
    ELSE [ok |-> TRUE, file |-> to_csv(DataFrame(data), file, append)]

\* append_books_to_csv(books, filename)
append_books_to_csv(books, file, io) == save_to_csv(books, file, TRUE, io)

\* save_books_to_csv(books, filename) at time now
save_books_to_csv(books, file, io, now) ==
    IF books = <<>> THEN [ok |-> FALSE, file |-> file]
    ELSE LET df == DataFrame(books)
             hasPrice == InSeq(Price, df.columns)
             prices == [i \in 1..Len(df.rows) |->
                           clean_price(df.rows[i][IndexIn(Price, df.columns)])]
             df1 == IF hasPrice
                    THEN SetColumn(df, Price_Numeric,
                                   [i \in 1..Len(df.rows) |-> FloatCell(prices[i].value)])
                    ELSE df
             df2 == SetColumn(df1, Scraped_At,
                              [i \in 1..Len(df.rows) |-> StrCell(now)])
         IN IF hasPrice /\ \E i \in 1..Len(df.rows) : prices[i].raised
            THEN [ok |-> FALSE, file |-> file]
            ELSE IF io # "ok" THEN [ok |-> FALSE, file |-> file]
            ELSE [ok |-> TRUE, file |-> to_csv(df2, file, FALSE)]

\* the fields pd.read_csv takes for missing values
NaValues == {<<>>, <<"N", "A">>, <<"N", "a", "N">>, <<"n", "a", "n">>, <<"n", "u", "l", "l">>}

IsIntText(s) ==
    LET body == IF s # <<>> /\ s[1] \in {"+", "-"} THEN Tail(s) ELSE s IN
    body # <<>> /\ AllDigits(body)

IntText(s) ==
    LET minus == IF s[1] = "-" THEN <<"-">> ELSE <<>>
        body == IF s[1] \in {"+", "-"} THEN Tail(s) ELSE s
    IN minus \o DropLeadingZeros(body)

\* the cells pd.read_csv makes of the fields of one column: ints when every
\* field is an int, floats when every field is a number or missing, else the
\* strs as they are, with NaN for the missing ones
ColumnCells(fields) ==
    LET present == {i \in 1..Len(fields) : fields[i] \notin NaValues}
        ints == \A i \in present : IsIntText(fields[i])
        nums == \A i \in present : ParseFloat(fields[i]) # None
    IN [i \in 1..Len(fields) |->
           IF i \notin present THEN NaN
           ELSE IF ints /\ present = 1..Len(fields) THEN IntCell(IntText(fields[i]))
           ELSE IF nums THEN FloatCell(ParseFloat(fields[i])[1])
           ELSE StrCell(fields[i])]

Field(line, j) == IF j <= Len(line) THEN line[j] ELSE <<>>

DigitChars == <<"0", "1", "2", "3", "4", "5", "6", "7", "8", "9">>

\* the name pd.read_csv gives column j: the header field, or "Unnamed: j-1"
\* for an empty one
ColumnName(header, j) ==
    IF header[j] = <<>> THEN <<"U", "n", "n", "a", "m", "e", "d", ":", " ">> \o <<DigitChars[j]>> ELSE header[j]

\* pd.read_csv(filename): None for the exception of a file without lines or
\* with a line longer than the header, else Some(DataFrame)
read_csv(lines) ==
    IF lines = <<>> \/ \E i \in 2..Len(lines) : Len(lines[i]) > Len(lines[1])
    THEN None
    ELSE LET n == Len(lines) - 1
             cols == [j \in 1..Len(lines[1]) |->
                         ColumnCells([i \in 1..n |-> Field(lines[i + 1], j)])]
         IN Some([columns |-> [j \in 1..Len(lines[1]) |-> ColumnName(lines[1], j)],
                  rows |-> [i \in 1..n |-> [j \in 1..Len(lines[1]) |-> cols[j][i]]]])

\* load_books_from_csv(filename): None or Some(DataFrame)
load_books_from_csv(file) ==
    IF file = None THEN None ELSE read_csv(file[1])

(* ------------- parser.py: get_book_urls, parse_book_details ----------- *)
\* the hrefs of the containers whose heading has a link with a non-empty href
RECURSIVE UrlsOf(_)
UrlsOf(containers) ==
    IF containers = <<>> THEN <<>>
    ELSE LET n == Head(containers) IN
         (IF n.a /\ n.href # None /\ n.href[1] # <<>> THEN <<n.href[1]>> ELSE <<>>)
         \o UrlsOf(Tail(containers))

\* get_book_urls: raised is the AttributeError of book.find('h3') returning
\* None
get_book_urls(html_content) ==
    IF Falsy(html_content) THEN [raised |-> FALSE, urls |-> <<>>]
    ELSE LET containers == Containers(html_content[1]) IN
         IF \E i \in 1..Len(containers) : ~containers[i].h3
         THEN [raised |-> TRUE, urls |-> <<>>]
         ELSE [raised |-> FALSE, urls |-> UrlsOf(containers)]

\* book_details[key] = value
SetKey(rec, key, value) ==
    IF InSeq(key, Keys(rec))
    THEN [rec EXCEPT ![IndexIn(key, Keys(rec))] = <<key, value>>]
    ELSE Append(rec, <<key, value>>)

\* soup.find: the first node, in document order, that has the element
FirstWith(nodes, Has(_)) ==
    IF \E i \in 1..Len(nodes) : Has(nodes[i])
    THEN Some(nodes[CHOOSE i \in 1..Len(nodes) :
                       Has(nodes[i]) /\ \A k \in 1..(i - 1) : ~Has(nodes[k])])
    ELSE None

HasH1(n) == n.kind = "product" /\ n.h1 # None
HasPriceElement(n) == n.kind \in {"article", "product"} /\ n.price # None
HasAvailability(n) == n.kind = "product" /\ n.availability # None
HasTable(n) == n.kind = "product" /\ n.table # None
HasDescription(n) == n.kind = "product" /\ n.description # None
HasRating(n) == n.kind = "product" /\ n.rating # None

\* the rows of the table, one key each: "if header and data"
RECURSIVE WithRows(_, _)
WithRows(rec, rows) ==
    IF rows = <<>> THEN rec
    ELSE LET row == Head(rows) IN
         WithRows(IF row.th # None /\ row.td # None
                  THEN SetKey(rec, Strip(row.th[1]), Strip(row.td[1]))
                  ELSE rec,
                  Tail(rows))

RatingNames == { <<"O", "n", "e">>, <<"T", "w", "o">>, <<"T", "h", "r", "e", "e">>, <<"F", "o", "u", "r">>, <<"F", "i", "v", "e">> }

Rating == <<"R", "a", "t", "i", "n", "g">>
Description == <<"D", "e", "s", "c", "r", "i", "p", "t", "i", "o", "n">>

\* parse_book_details: the book_details dictionary
parse_book_details(html_content) ==
    IF Falsy(html_content) THEN <<>>
    ELSE LET nodes == html_content[1]
             title_element == FirstWith(nodes, HasH1)
             price_element == FirstWith(nodes, HasPriceElement)
             availability_element == FirstWith(nodes, HasAvailability)
             product_table == FirstWith(nodes, HasTable)
             description_div == FirstWith(nodes, HasDescription)
             rating_element == FirstWith(nodes, HasRating)
             d1 == IF title_element = None THEN <<>>
                   ELSE << <<Title, Strip(title_element[1].h1[1])>> >>
             d2 == IF price_element = None THEN d1
                   ELSE SetKey(d1, Price, Strip(price_element[1].price[1]))
             d3 == IF availability_element = None THEN d2
                   ELSE SetKey(d2, Availability,
                               Strip(availability_element[1].availability[1]))
             d4 == IF product_table = None THEN d3
                   ELSE WithRows(d3, product_table[1].table[1])
             d5 == IF description_div = None
                      \/ description_div[1].description[1] = None
                   THEN d4
                   ELSE SetKey(d4, Description,
                               Strip(description_div[1].description[1][1]))
             rating_classes == IF rating_element = None THEN <<>>
                               ELSE rating_element[1].rating[1]
             named == SelectSeq(rating_classes, LAMBDA c : c \in RatingNames)
         IN IF named = <<>> THEN d5 ELSE SetKey(d5, Rating, named[1])

(* --------------------------- generated inputs ------------------------- *)
Filler == FillNode("x", ShortPageThreshold)
Blank == FillNode(" ", ShortPageThreshold - 50)
NotFoundText == TextNode(<<"P", "a", "g", "e", " ", "N", "o", "t", " ", "F", "o", "u", "n", "d">>)

BookA == Article(TRUE, TRUE, Some(<<"A">>), Some(<<"GBP", "1">>))
BookB == Article(TRUE, TRUE, Some(<<" ", "B", " ">>), Some(<<" ", "GBP", "2", " ">>))
NoTitleAttr == Article(TRUE, TRUE, None, Some(<<"GBP", "3">>))
NoLink == Article(TRUE, FALSE, None, Some(<<"GBP", "4">>))
NoHeading == Article(FALSE, FALSE, None, Some(<<"GBP", "5">>))
NoPrice == Article(TRUE, TRUE, Some(<<"F">>), None)

Articles == {BookA, BookB, NoTitleAttr, NoLink, NoHeading, NoPrice}
BodyNodes == {Filler, Blank, NotFoundText} \cup Articles

Heads ==
    { <<>>,
      <<TitleNode(FALSE, <<"A", "l", "l", " ", "p", "r", "o", "d", "u", "c", "t", "s">>)>>,
      <<TitleNode(FALSE, <<"4", "0", "4", " ", "E", "r", "r", "o", "r">>)>>,
      <<TitleNode(TRUE, <<"4", "0", "4", " ", "E", "r", "r", "o", "r">>)>> }

Bodies == UNION {[1..n -> BodyNodes] : n \in 0..MaxNodes}

Docs == {None} \cup {Some(h \o b) : h \in Heads, b \in Bodies}


(* ------------------------- generated detail pages --------------------- *)
Row(th, td) == [th |-> th, td |-> td]

ProductTable ==
    Some(<< Row(Some(<<"U", "P", "C">>), Some(<<"a", "8", "9", "7">>)),
            Row(Some(<<"N", "u", "m", "b", "e", "r", " ", "o", "f", " ", "r", "e", "v", "i", "e", "w", "s">>), Some(<<" ", "0", " ">>)) >>)
RaggedTable ==
    Some(<< Row(Some(<<"U", "P", "C">>), None),
            Row(None, Some(<<"a", "8", "9", "7">>)),
            Row(Some(<<"P", "r", "i", "c", "e">>), Some(<<"GBP", "9">>)) >>)

\* the table of the site's detail pages has a row named Availability
SiteTable ==
    Some(<< Row(Some(<<"U", "P", "C">>), Some(<<"a", "8", "9", "7">>)),
            Row(Some(<<"A", "v", "a", "i", "l", "a", "b", "i", "l", "i", "t", "y">>), Some(<<"1", "9", " ", "l", "e", "f", "t">>)) >>)

Stars == Some(<< <<"s", "t", "a", "r", "-", "r", "a", "t", "i", "n", "g">>, <<"T", "h", "r", "e", "e">> >>)
NoStars == Some(<< <<"s", "t", "a", "r", "-", "r", "a", "t", "i", "n", "g">> >>)

FullProduct ==
    Product(Some(<<" ", "A", " ">>), Some(<<"GBP", "1">>), Some(<<" ", "I", "n", " ", "s", "t", "o", "c", "k", " ">>), ProductTable,
            Some(Some(<<"A", " ", "b", "o", "o", "k", ".">>)), Stars)
BareProduct == Product(None, None, None, None, None, None)
Products ==
    { FullProduct,
      BareProduct,
      Product(Some(<<"B">>), None, None, None, None, None),
      Product(None, Some(<<"GBP", "2">>), None, None, None, None),
      Product(None, None, Some(<<"I", "n", " ", "s", "t", "o", "c", "k">>), None, None, None),
      Product(Some(<<"C">>), Some(<<"GBP", "3">>), None, RaggedTable, None, None),
      Product(None, None, None, RaggedTable, None, None),
      Product(Some(<<"E">>), None, Some(<<" ", "I", "n", " ", "s", "t", "o", "c", "k", " ">>), SiteTable, None, None),
      Product(Some(<<"D">>), None, None, None, Some(None), None),
      Product(None, None, None, None, Some(Some(<<"A", " ", "b", "o", "o", "k", ".">>)), NoStars),
      Product(None, None, None, None, None, Stars) }

DetailPages == {Some(<<TitleNode(FALSE, <<"A", " ", "|", " ", "B", "o", "o", "k", "s", " ", "t", "o", " ", "S", "c", "r", "a", "p", "e">>), p>>) : p \in Products}

(* --------------------------- pages with links ------------------------- *)
LinkA == Linked(BookA, Some(<<"c", "a", "t", "a", "l", "o", "g", "u", "e", "/", "a", "_", "1", "/", "i", "n", "d", "e", "x", ".", "h", "t", "m", "l">>))
LinkB == Linked(BookB, Some(<<".", ".", "/", "b", "_", "2", "/", "i", "n", "d", "e", "x", ".", "h", "t", "m", "l">>))
LinkC == Linked(NoPrice, Some(<<"c", "_", "3", "/", "i", "n", "d", "e", "x", ".", "h", "t", "m", "l">>))
NoHref == Linked(BookA, None)
EmptyHref == Linked(BookB, Some(<<>>))

LinkPages ==
    { Some(<<TitleNode(FALSE, <<"A", "l", "l", " ", "p", "r", "o", "d", "u", "c", "t", "s">>), Filler, LinkA, LinkB>>),
      Some(<<TitleNode(FALSE, <<"A", "l", "l", " ", "p", "r", "o", "d", "u", "c", "t", "s">>), Filler, LinkB, LinkA, LinkC>>),
      Some(<<TitleNode(FALSE, <<"A", "l", "l", " ", "p", "r", "o", "d", "u", "c", "t", "s">>), Filler, NoHref, LinkA, EmptyHref, LinkC>>),
      Some(<<TitleNode(FALSE, <<"A", "l", "l", " ", "p", "r", "o", "d", "u", "c", "t", "s">>), Filler, LinkA, NoLink, LinkB>>),
      Some(<<TitleNode(FALSE, <<"A", "l", "l", " ", "p", "r", "o", "d", "u", "c", "t", "s">>), Filler, LinkA, NoHeading, LinkB>>) }
(* ------------------------------ fetcher.py ---------------------------- *)
\* retry_attempts of fetch_html when the caller gives none
DefaultRetryAttempts == 3

\* what one requests.get / raise_for_status can end with
Failures == {"ConnectionError", "Timeout", "HTTPError"}

\* an except clause that catches HTTP errors only
RequestException_HTTPOnly == {"HTTPError"}

\* the exceptions the except clause of fetch_html catches
RequestException == {"ConnectionError", "Timeout", "HTTPError"}

\* a backoff after every failed attempt, the last one included
RetryFollows_Always(attempt, retry_attempts) == attempt < retry_attempts

\* "attempt < retry_attempts - 1": another attempt follows this failure
RetryFollows(attempt, retry_attempts) == attempt < retry_attempts - 1

\* s.startswith(prefix)
StartsWith(s, prefix) ==
    Len(s) >= Len(prefix) /\ SubSeq(s, 1, Len(prefix)) = prefix

\* s.lstrip(chars): s without its leading characters that are in chars
RECURSIVE LStrip(_, _)
LStrip(s, chars) ==
    IF s # <<>> /\ Head(s) \in chars THEN LStrip(Tail(s), chars) ELSE s

base_url == <<"h", "t", "t", "p", "s", ":", "/", "/", "b", "o", "o", "k", "s", ".", "t", "o", "s", "c", "r", "a", "p", "e", ".", "c", "o", "m", "/">>

\* fetch_book_detail(book_url): the URL it passes to fetch_html
fetch_book_detail(book_url) ==
    IF ~StartsWith(book_url, <<"h", "t", "t", "p">>)
    THEN LET clean_url == LStrip(book_url, {".", "/"}) IN base_url \o clean_url
    ELSE book_url

(* -------------------------------- the site ---------------------------- *)
\* pages the simulated catalog can hold
MaxPage == 2
\* largest start_page, num_pages and retry_attempts a caller passes
MaxStart == 2
MaxNum == 2
MaxRetry == 3

CatalogTitle == TitleNode(FALSE, <<"A", "l", "l", " ", "p", "r", "o", "d", "u", "c", "t", "s">>)
Normal == Some(<<CatalogTitle, Filler, BookB, BookA>>)
Short == Some(<<BookA>>)
NotFoundPage == Some(<<TitleNode(FALSE, <<"4", "0", "4", " ", "N", "o", "t", " ", "F", "o", "u", "n", "d">>), Filler>>)
Empty == Some(<<CatalogTitle, Filler>>)
Broken == Some(<<CatalogTitle, Filler, BookA, NoHeading>>)
\* no such page: the server answers 404 and raise_for_status raises
Missing == None

PageKinds == {Normal, Short, NotFoundPage, Empty, Broken, Missing}

(* ------------------------------- state -------------------------------- *)
VARIABLES
    arg,        \* the html_content a function of parser.py / main.py is applied to
    fn,         \* the function applied, "none" before the call
    found,      \* what is_page_not_found returned
    parsed,     \* what parse_books_from_html returned, or that it raised
    number,     \* what clean_price returned, or that it raised
    requested,  \* the URL fetch_book_detail called fetch_html with
    urls,       \* what get_book_urls returned, or that it raised
    details,    \* what parse_book_details returned
    site,       \* page number -> the document the server holds for it
    entry,      \* the function called: fetch_html, scrape_all_pages, scrape_multiple_pages
    start_page, num_pages, retry_attempts,   \* its arguments
    pc,         \* position in the crawl function
    page,       \* the loop variable
    all_books,  \* the running aggregate
    html_content, books,   \* locals of the loop body
    ret,        \* what the crawl function returned
    fpc,        \* position in fetch_html: idle, get, backoff, returned, raised
    url,        \* the page fetch_html was called for
    attempt,    \* the loop variable of fetch_html
    result,     \* what fetch_html returned
    gets,       \* GET requests of this fetch_html call
    failures,   \* failed attempts of this fetch_html call
    events,     \* what the run did, in order: <<kind, page>>
    file,       \* the destination file: None, or Some(its lines, each a sequence of fields)
    disk,       \* "ok", or the error the file system gives every write
    start,      \* what the destination was at the start: absent, empty, header
    calls,      \* the saver.py calls made, in order, with arguments and results
    loaded,     \* what the last load_books_from_csv returned
    since,      \* records written since the last overwrite (or since the start)
    overwrote,  \* an overwriting write has succeeded
    max_details,    \* argument of scrape_book_details
    pages,          \* detail URL -> the document the server holds for it
    book_urls,      \* book_urls[:max_details]
    idx,            \* the loop variable i of scrape_book_details, from 1
    detail_html,    \* what fetch_book_detail returned last
    detailed_books  \* the running list of scrape_book_details

funVars == <<arg, fn, found, parsed, number, requested, urls, details>>
argVars == <<site, entry, start_page, num_pages, retry_attempts>>
crawlVars == <<pc, page, all_books, html_content, books, ret>>
fetchVars == <<fpc, url, attempt, result, gets, failures>>
csvVars == <<file, disk, start, calls, loaded, since, overwrote>>
detailVars == <<max_details, pages, book_urls, idx, detail_html, detailed_books>>
vars == <<funVars, argVars, crawlVars, fetchVars, events, csvVars, detailVars>>

NoBooks == [raised |-> FALSE, books |-> <<>>]
NoNumber == [raised |-> FALSE, value |-> <<>>]
NoUrls == [raised |-> FALSE, urls |-> <<>>]

FunIdle ==
    /\ arg = None
    /\ fn = "none"
    /\ found = FALSE
    /\ parsed = NoBooks
    /\ number = NoNumber
    /\ requested = <<>>
    /\ urls = NoUrls
    /\ details = <<>>

DetailsIdle ==
    /\ max_details = 0 /\ pages = <<>>
    /\ book_urls = <<>> /\ idx = 1
    /\ detail_html = None /\ detailed_books = <<>>

CrawlIdle ==
    /\ DetailsIdle
    /\ site = [p \in 1..MaxPage |-> Missing]
    /\ entry = "none"
    /\ start_page = 1 /\ num_pages = 0 /\ retry_attempts = 0
    /\ pc = "idle" /\ page = 1 /\ all_books = <<>>
    /\ html_content = None /\ books = NoBooks /\ ret = <<>>
    /\ fpc = "idle" /\ url = 1 /\ attempt = 0 /\ result = None
    /\ gets = 0 /\ failures = 0
    /\ events = <<>>

CsvIdle ==
    /\ file = None /\ disk = "ok" /\ start = "absent"
    /\ calls = <<>> /\ loaded = None
    /\ since = 0 /\ overwrote = FALSE

(* ---------------- parser.py and main.py functions, applied ------------ *)
InitFun ==
    /\ arg \in Docs \cup LinkPages \cup DetailPages
    /\ fn = "none"
    /\ found = FALSE
    /\ parsed = NoBooks
    /\ number = NoNumber
    /\ requested = <<>>
    /\ urls = NoUrls
    /\ details = <<>>
    /\ CrawlIdle
    /\ CsvIdle

Call_is_page_not_found ==
    /\ fn = "none"
    /\ fn' = "is_page_not_found"
    /\ found' = is_page_not_found(arg)
    /\ UNCHANGED <<csvVars, detailVars, arg, parsed, number, requested, urls, details, argVars, crawlVars, fetchVars, events>>

Call_parse_books_from_html ==
    /\ fn = "none"
    /\ fn' = "parse_books_from_html"
    /\ parsed' = parse_books_from_html(arg)
    /\ UNCHANGED <<csvVars, detailVars, arg, found, number, requested, urls, details, argVars, crawlVars, fetchVars, events>>

Call_get_book_urls ==
    /\ fn = "none"
    /\ fn' = "get_book_urls"
    /\ urls' = get_book_urls(arg)
    /\ UNCHANGED <<csvVars, detailVars, arg, found, parsed, number, requested, details,
                   argVars, crawlVars, fetchVars, events>>

Call_parse_book_details ==
    /\ fn = "none"
    /\ fn' = "parse_book_details"
    /\ details' = parse_book_details(arg)
    /\ UNCHANGED <<csvVars, detailVars, arg, found, parsed, number, requested, urls,
                   argVars, crawlVars, fetchVars, events>>

NextFun ==
    \/ Call_is_page_not_found
    \/ Call_parse_books_from_html
    \/ Call_get_book_urls
    \/ Call_parse_book_details

SpecFun == InitFun /\ [][NextFun]_vars

(* ------------------------- clean_price, applied ----------------------- *)
\* what stands before and after the numeral of a price text
PricePrefixes == { <<>>, <<"GBP">>, <<"$">>, <<"EUR">>, <<"YEN">>, <<"A^", "GBP">>, <<" ", "GBP">> }
PriceSuffixes == { <<>>, <<" ">> }
\* numerals, and texts that are none
PriceNumerals ==
    { <<>>, <<"5", "1", ".", "7", "7">>, <<"1", "2", ".", "0", "0">>, <<"5">>, <<".", "5">>, <<"0", "0", "7">>,
      <<"n", "o", "t", " ", "a", " ", "p", "r", "i", "c", "e">>, <<"1", ",", "0", "0", "0", ".", "0", "0">>, <<"1", ".", "2", ".", "3">> }

\* the values clean_price is called with: the Price texts of records, and
\* what the Price column of a DataFrame holds for a record without a Price
PriceCells ==
    {StrCell(p \o n \o s) : p \in PricePrefixes, n \in PriceNumerals, s \in PriceSuffixes}
    \cup {NaN, NoneCell}

InitPrice ==
    /\ arg \in PriceCells
    /\ fn = "none"
    /\ found = FALSE
    /\ parsed = NoBooks
    /\ number = NoNumber
    /\ requested = <<>>
    /\ urls = NoUrls
    /\ details = <<>>
    /\ CrawlIdle
    /\ CsvIdle

Call_clean_price ==
    /\ fn = "none"
    /\ fn' = "clean_price"
    /\ number' = clean_price(arg)
    /\ UNCHANGED <<csvVars, detailVars, arg, found, parsed, requested, urls, details, argVars, crawlVars, fetchVars, events>>

NextPrice == Call_clean_price

SpecPrice == InitPrice /\ [][NextPrice]_vars

(* ----------------------- fetch_book_detail, applied ------------------- *)
\* what stands before the path of a link
UrlPrefixes ==
    { <<>>, <<".", ".", "/">>, <<".", ".", "/", ".", ".", "/">>, <<".", ".", "/", ".", ".", "/", ".", ".", "/">>,
      <<"h", "t", "t", "p", "s", ":", "/", "/", "b", "o", "o", "k", "s", ".", "t", "o", "s", "c", "r", "a", "p", "e", ".", "c", "o", "m", "/">>, <<"h", "t", "t", "p", ":", "/", "/", "b", "o", "o", "k", "s", ".", "t", "o", "s", "c", "r", "a", "p", "e", ".", "c", "o", "m", "/">> }

\* paths of detail pages
UrlPaths ==
    { <<"i", "n", "d", "e", "x", ".", "h", "t", "m", "l">>,
      <<"c", "a", "t", "a", "l", "o", "g", "u", "e", "/", "p", "a", "g", "e", "-", "2", ".", "h", "t", "m", "l">>,
      <<"c", "a", "t", "a", "l", "o", "g", "u", "e", "/", "a", "-", "l", "i", "g", "h", "t", "-", "i", "n", "-", "t", "h", "e", "-", "a", "t", "t", "i", "c", "_", "1", "0", "0", "0", "/", "i", "n", "d", "e", "x", ".", "h", "t", "m", "l">>,
      <<"a", "-", "l", "i", "g", "h", "t", "-", "i", "n", "-", "t", "h", "e", "-", "a", "t", "t", "i", "c", "_", "1", "0", "0", "0", "/", "i", "n", "d", "e", "x", ".", "h", "t", "m", "l">>,
      <<"c", "a", "t", "a", "l", "o", "g", "u", "e", "/", "h", "t", "t", "p", "-", "t", "h", "e", "-", "d", "e", "f", "i", "n", "i", "t", "i", "v", "e", "-", "g", "u", "i", "d", "e", "_", "5", "/", "i", "n", "d", "e", "x", ".", "h", "t", "m", "l">>,
      <<"h", "t", "t", "p", "-", "t", "h", "e", "-", "d", "e", "f", "i", "n", "i", "t", "i", "v", "e", "-", "g", "u", "i", "d", "e", "_", "5", "/", "i", "n", "d", "e", "x", ".", "h", "t", "m", "l">>,
      <<"h", "t", "t", "p", "s", "-", "e", "v", "e", "r", "y", "w", "h", "e", "r", "e", "_", "6", "/", "i", "n", "d", "e", "x", ".", "h", "t", "m", "l">>,
      <<".", "n", "e", "t", "-", "i", "n", "-", "a", "c", "t", "i", "o", "n", "_", "7", "/", "i", "n", "d", "e", "x", ".", "h", "t", "m", "l">>,
      <<"c", "a", "t", "a", "l", "o", "g", "u", "e", "/", ".", "n", "e", "t", "-", "i", "n", "-", "a", "c", "t", "i", "o", "n", "_", "7", "/", "i", "n", "d", "e", "x", ".", "h", "t", "m", "l">>,
      <<".", ".", ".", "a", "n", "d", "-", "t", "h", "e", "n", "-", "t", "h", "e", "r", "e", "-", "w", "e", "r", "e", "-", "n", "o", "n", "e", "_", "8", "/", "i", "n", "d", "e", "x", ".", "h", "t", "m", "l">> }

BookUrls == {p \o u : p \in UrlPrefixes, u \in UrlPaths}

InitUrl ==
    /\ arg \in BookUrls
    /\ fn = "none"
    /\ found = FALSE
    /\ parsed = NoBooks
    /\ number = NoNumber
    /\ requested = <<>>
    /\ urls = NoUrls
    /\ details = <<>>
    /\ CrawlIdle
    /\ CsvIdle

Call_fetch_book_detail ==
    /\ fn = "none"
    /\ fn' = "fetch_book_detail"
    /\ requested' = fetch_book_detail(arg)
    /\ UNCHANGED <<csvVars, detailVars, arg, found, parsed, number, urls, details, argVars, crawlVars, fetchVars, events>>

NextUrl == Call_fetch_book_detail

SpecUrl == InitUrl /\ [][NextUrl]_vars

(* ------------------------------ the crawl ----------------------------- *)
Log(kind, p) == Append(events, <<kind, p>>)

Init ==
    /\ FunIdle
    /\ entry \in {"fetch_html", "scrape_all_pages", "scrape_multiple_pages"}
    /\ site \in IF entry = "fetch_html"
                THEN {[p \in 1..MaxPage |-> k] : k \in PageKinds}
                ELSE [1..MaxPage -> PageKinds]
    /\ start_page \in 1..MaxStart
    /\ num_pages \in IF entry = "scrape_multiple_pages" THEN 0..MaxNum ELSE {0}
    /\ retry_attempts \in IF entry = "fetch_html" THEN 0..MaxRetry
                          ELSE {DefaultRetryAttempts}
    /\ pc = "call" /\ page = start_page /\ all_books = <<>>
    /\ html_content = None /\ books = NoBooks /\ ret = <<>>
    /\ fpc = "idle" /\ url = start_page /\ attempt = 0 /\ result = None
    /\ gets = 0 /\ failures = 0
    /\ events = <<>>
    /\ CsvIdle
    /\ DetailsIdle

\* the server's answer to a GET of page p, when the request gets through
Served(p) == IF p \in DOMAIN site THEN site[p] ELSE Missing

\* fetch_html is entered: "for attempt in range(retry_attempts)"
EnterFetch(p) ==
    /\ url' = p
    /\ attempt' = 0
    /\ gets' = 0
    /\ failures' = 0
    /\ result' = None
    /\ fpc' = IF retry_attempts > 0 THEN "get" ELSE "returned"

\* fetch_html called on its own
CallFetchHtml ==
    /\ pc = "call" /\ entry = "fetch_html"
    /\ pc' = "fetching"
    /\ EnterFetch(start_page)
    /\ events' = Log("fetch", start_page)
    /\ UNCHANGED <<csvVars, detailVars, funVars, argVars, page, all_books, html_content, books, ret>>

\* one attempt: requests.get, raise_for_status, return response.text; or the
\* except clause.  An exception the clause does not catch leaves fetch_html
\* and its caller.
Get ==
    /\ fpc = "get"
    /\ gets' = gets + 1
    /\ \E outcome \in Failures \cup {"ok"} :
          /\ outcome = "ok" => Served(url) # Missing
          /\ IF outcome = "ok"
             THEN /\ result' = Served(url)
                  /\ fpc' = "returned"
                  /\ UNCHANGED <<failures, pc>>
             ELSE IF outcome \in RequestException
             THEN /\ failures' = failures + 1
                  /\ result' = None
                  /\ fpc' = IF RetryFollows(attempt, retry_attempts)
                            THEN "backoff" ELSE "returned"
                  /\ UNCHANGED pc
             ELSE /\ fpc' = "raised"
                  /\ pc' = "raised"
                  /\ UNCHANGED <<failures, result>>
    /\ UNCHANGED <<csvVars, detailVars, funVars, argVars, page, all_books, html_content, books, ret,
                   url, attempt, events>>

\* time.sleep(2), then the next attempt
Backoff ==
    /\ fpc = "backoff"
    /\ attempt' = attempt + 1
    /\ fpc' = "get"
    /\ events' = Log("backoff", url)
    /\ UNCHANGED <<csvVars, detailVars, funVars, argVars, crawlVars, url, result, gets, failures>>

\* fetch_html returns to its caller
FetchReturns ==
    /\ pc = "fetching" /\ fpc = "returned"
    /\ fpc' = "idle"
    /\ html_content' = result
    /\ pc' = IF entry = "fetch_html" THEN "done" ELSE "fetched"
    /\ UNCHANGED <<csvVars, detailVars, funVars, argVars, page, all_books, books, ret,
                   url, attempt, result, gets, failures, events>>

(* ------------------------------- main.py ------------------------------ *)
\* a range that runs one page too far
PageRange_OneMore == start_page..(start_page + num_pages)

\* range(start_page, start_page + num_pages)
PageRange == start_page..(start_page + num_pages - 1)

\* an aggregate that keeps the last page's records only
Extended_Replace(aggregate, records) == records

\* all_books.extend(books)
Extended(aggregate, records) == aggregate \o records

\* a delay after every page, the last one asked for included
DelayFollows_Always(p) == TRUE

\* "page < start_page + num_pages - 1": not the last page asked for
DelayFollows(p) == p < start_page + num_pages - 1

\* scrape_all_pages is entered
CallScrapeAll ==
    /\ pc = "call" /\ entry = "scrape_all_pages"
    /\ all_books' = <<>>
    /\ page' = start_page
    /\ pc' = "fetch"
    /\ UNCHANGED <<csvVars, detailVars, funVars, argVars, html_content, books, ret, fetchVars, events>>

\* scrape_multiple_pages is entered: the first iteration of the for loop, or
\* none
CallScrapeMultiple ==
    /\ pc = "call" /\ entry = "scrape_multiple_pages"
    /\ all_books' = <<>>
    /\ IF start_page \in PageRange
       THEN page' = start_page /\ pc' = "fetch" /\ UNCHANGED ret
       ELSE pc' = "done" /\ ret' = <<>> /\ UNCHANGED page
    /\ UNCHANGED <<csvVars, detailVars, funVars, argVars, html_content, books, fetchVars, events>>

\* fetch_books_page(page), in either crawl
FetchBooksPage ==
    /\ pc = "fetch"
    /\ pc' = "fetching"
    /\ EnterFetch(page)
    /\ events' = Log("fetch", page)
    /\ UNCHANGED <<csvVars, detailVars, funVars, argVars, page, all_books, html_content, books, ret>>

\* scrape_all_pages: "if not html_content: break"
AllFetchCheck ==
    /\ pc = "fetched" /\ entry = "scrape_all_pages"
    /\ IF Falsy(html_content)
       THEN pc' = "done" /\ ret' = all_books
       ELSE pc' = "check" /\ UNCHANGED ret
    /\ UNCHANGED <<csvVars, detailVars, funVars, argVars, page, all_books, html_content, books,
                   fetchVars, events>>

\* scrape_all_pages: "if is_page_not_found(html_content): break"
AllNotFoundCheck ==
    /\ pc = "check"
    /\ events' = Log("check", page)
    /\ IF is_page_not_found(html_content)
       THEN pc' = "done" /\ ret' = all_books
       ELSE pc' = "parse" /\ UNCHANGED ret
    /\ UNCHANGED <<csvVars, detailVars, funVars, argVars, page, all_books, html_content, books,
                   fetchVars>>

\* scrape_all_pages: books = parse_books_from_html(html_content);
\* "if not books: break"
AllParse ==
    /\ pc = "parse"
    /\ events' = Log("extract", page)
    /\ LET r == parse_books_from_html(html_content) IN
       IF r.raised
       THEN pc' = "raised" /\ UNCHANGED <<books, ret>>
       ELSE IF r.books = <<>>
       THEN pc' = "done" /\ ret' = all_books /\ books' = r
       ELSE pc' = "extend" /\ books' = r /\ UNCHANGED ret
    /\ UNCHANGED <<csvVars, detailVars, funVars, argVars, page, all_books, html_content, fetchVars>>

\* scrape_all_pages: all_books.extend(books); time.sleep(delay); page += 1
AllExtend ==
    /\ pc = "extend"
    /\ all_books' = Extended(all_books, books.books)
    /\ events' = Log("delay", page)
    /\ page' = page + 1
    /\ pc' = "fetch"
    /\ UNCHANGED <<csvVars, detailVars, funVars, argVars, html_content, books, ret, fetchVars>>

\* scrape_single_page, after its fetch_books_page: [] for a failed fetch,
\* else parse_books_from_html(html_content)
SinglePage ==
    /\ pc = "fetched" /\ entry = "scrape_multiple_pages"
    /\ IF Falsy(html_content)
       THEN /\ books' = NoBooks
            /\ pc' = "loop"
            /\ UNCHANGED events
       ELSE /\ events' = Log("extract", page)
            /\ LET r == parse_books_from_html(html_content) IN
               IF r.raised
               THEN pc' = "raised" /\ UNCHANGED books
               ELSE pc' = "loop" /\ books' = r
    /\ UNCHANGED <<csvVars, detailVars, funVars, argVars, page, all_books, html_content, ret, fetchVars>>

\* scrape_multiple_pages: the loop body after scrape_single_page, and the
\* step of the for loop
MultipleLoop ==
    /\ pc = "loop"
    /\ IF books.books # <<>>
       THEN /\ all_books' = Extended(all_books, books.books)
            /\ events' = IF DelayFollows(page) THEN Log("delay", page) ELSE events
            /\ IF page + 1 \in PageRange
               THEN page' = page + 1 /\ pc' = "fetch" /\ UNCHANGED ret
               ELSE pc' = "done" /\ ret' = all_books' /\ UNCHANGED page
       ELSE /\ pc' = "done"
            /\ ret' = all_books
            /\ UNCHANGED <<page, all_books, events>>
    /\ UNCHANGED <<csvVars, detailVars, funVars, argVars, html_content, books, fetchVars>>

Next ==
    \/ CallFetchHtml
    \/ Get
    \/ Backoff
    \/ FetchReturns
    \/ CallScrapeAll
    \/ CallScrapeMultiple
    \/ FetchBooksPage
    \/ AllFetchCheck
    \/ AllNotFoundCheck
    \/ AllParse
    \/ AllExtend
    \/ SinglePage
    \/ MultipleLoop

Spec == Init /\ [][Next]_vars

\* the termination check returns, one way or the other: the step of
\* AllNotFoundCheck without the computation of its answer
NotFoundCheckReturns ==
    /\ pc = "check"
    /\ events' = Log("check", page)
    /\ \/ pc' = "done" /\ ret' = all_books
       \/ pc' = "parse" /\ UNCHANGED ret
    /\ UNCHANGED <<csvVars, detailVars, funVars, argVars, page, all_books, html_content, books,
                   fetchVars>>

\* the interpreter runs the statement the program is at: a sleep ends, and
\* requests.get returns or raises within its timeout.  The program is
\* sequential: at most one step is enabled at a time, and at the termination
\* check a step of NotFoundCheckReturns is a step of AllNotFoundCheck.
Fairness ==
    /\ WF_vars(CallFetchHtml) /\ WF_vars(Get) /\ WF_vars(Backoff)
    /\ WF_vars(FetchReturns)
    /\ WF_vars(CallScrapeAll) /\ WF_vars(CallScrapeMultiple)
    /\ WF_vars(FetchBooksPage)
    /\ WF_vars(AllFetchCheck) /\ WF_vars(NotFoundCheckReturns)
    /\ WF_vars(AllParse) /\ WF_vars(AllExtend)
    /\ WF_vars(SinglePage) /\ WF_vars(MultipleLoop)

SpecFair == Spec /\ Fairness

(* ------------------------ main.py: scrape_book_details ---------------- *)
\* largest max_details a caller passes
MaxDetails == 2

\* what page 1 of the catalog can be
FirstPages == LinkPages \cup {Empty, Missing}

\* the detail pages the links of page 1 lead to, and what the server holds
\* for each: every element, none of them, or no page
DetailUrls ==
    { fetch_book_detail(LinkA.href[1]),
      fetch_book_detail(LinkB.href[1]),
      fetch_book_detail(LinkC.href[1]) }
FullPage == Some(<<TitleNode(FALSE, <<"A", " ", "|", " ", "B", "o", "o", "k", "s", " ", "t", "o", " ", "S", "c", "r", "a", "p", "e">>), FullProduct>>)
BarePage == Some(<<BareProduct>>)
DetailKinds == {FullPage, BarePage, Missing}

InitDetails ==
    /\ FunIdle
    /\ CsvIdle
    /\ entry = "scrape_book_details"
    /\ site \in {[p \in 1..MaxPage |-> k] : k \in FirstPages}
    /\ start_page = 1 /\ num_pages = 0
    /\ retry_attempts = DefaultRetryAttempts
    /\ max_details \in 0..MaxDetails
    /\ pages \in [DetailUrls -> DetailKinds]
    /\ pc = "call" /\ page = 1 /\ all_books = <<>>
    /\ html_content = None /\ books = NoBooks /\ ret = <<>>
    /\ fpc = "idle" /\ url = 1 /\ attempt = 0 /\ result = None
    /\ gets = 0 /\ failures = 0
    /\ events = <<>>
    /\ book_urls = <<>> /\ idx = 1
    /\ detail_html = None /\ detailed_books = <<>>

\* book_urls[:max_details], for max_details >= 0
FirstUrls(all_urls, n) == SubSeq(all_urls, 1, IF n < Len(all_urls) THEN n ELSE Len(all_urls))

\* scrape_book_details is entered: detailed_books = [], fetch_books_page(1)
CallScrapeBookDetails ==
    /\ pc = "call" /\ entry = "scrape_book_details"
    /\ detailed_books' = <<>>
    /\ pc' = "fetch"
    /\ UNCHANGED <<csvVars, funVars, argVars, page, all_books, html_content, books, ret,
                   fetchVars, events, max_details, pages, book_urls, idx, detail_html>>

\* "if html_content:", get_book_urls(html_content), the slice, and the
\* start of the loop
DetailsUrls ==
    /\ pc = "fetched" /\ entry = "scrape_book_details"
    /\ IF Falsy(html_content)
       THEN pc' = "done" /\ ret' = detailed_books /\ UNCHANGED <<book_urls, events>>
       ELSE LET r == get_book_urls(html_content) IN
            /\ events' = Log("urls", page)
            /\ IF r.raised
               THEN pc' = "raised" /\ UNCHANGED <<book_urls, ret>>
               ELSE /\ book_urls' = FirstUrls(r.urls, max_details)
                    /\ IF book_urls' = <<>>
                       THEN pc' = "done" /\ ret' = detailed_books
                       ELSE pc' = "detail" /\ UNCHANGED ret
    /\ idx' = 1
    /\ UNCHANGED <<csvVars, funVars, argVars, page, all_books, html_content, books,
                   fetchVars, max_details, pages, detail_html, detailed_books>>

\* one iteration of the loop: fetch_book_detail(url), parse_book_details,
\* append, time.sleep(0.5).  The fetch gives the document the server holds,
\* or None when every attempt of fetch_html failed.
DetailStep ==
    /\ pc = "detail"
    /\ \E got \in {pages[fetch_book_detail(book_urls[idx])], None} :
          LET book_details == parse_book_details(got) IN
          /\ detail_html' = got
          /\ detailed_books' =
                 IF ~Falsy(got) /\ book_details # <<>>
                 THEN Append(detailed_books, book_details)
                 ELSE detailed_books
          /\ events' = events \o << <<"detail", idx>> >>
                       \o (IF got # None THEN << <<"got", idx>> >> ELSE <<>>)
                       \o << <<"pause", idx>> >>
          /\ IF idx < Len(book_urls)
             THEN idx' = idx + 1 /\ pc' = "detail" /\ UNCHANGED ret
             ELSE pc' = "done" /\ ret' = detailed_books' /\ UNCHANGED idx
    /\ UNCHANGED <<csvVars, funVars, argVars, page, all_books, html_content, books,
                   fetchVars, max_details, pages, book_urls>>

NextDetails ==
    \/ CallScrapeBookDetails
    \/ FetchBooksPage
    \/ Get
    \/ Backoff
    \/ FetchReturns
    \/ DetailsUrls
    \/ DetailStep

SpecDetails == InitDetails /\ [][NextDetails]_vars

(* --------------------------- saver.py, called ------------------------- *)
\* calls in one run
MaxCalls == 2

\* a list-page record, a detail record with a row of the product table, and
\* a detail record of a page without a price element
RecA == << <<Title, <<"A">>>>, <<Price, <<"GBP", "1", ".", "5", "0">>>> >>
RecB == << <<Title, <<"B">>>>, <<Price, <<"GBP", "2", ".", "0", "0">>>>, <<Reviews, <<"0">>>> >>
RecC == << <<Title, <<"C">>>>, <<Availability, <<"I", "n", " ", "s", "t", "o", "c", "k">>>> >>

\* the lists of records a caller passes
Batches ==
    { <<>>, <<RecA>>, <<RecC>>, <<RecA, RecB>>, <<RecB, RecA>>, <<RecA, RecC>> }

\* datetime.now().strftime(...) at the n-th call
Now(n) == <<"2", "0", "2", "6", "-", "0", "1", "-", "0", "1", " ", "0", "0", ":", "0", "0", ":", "0">> \o <<DigitChars[n + 1]>>

\* a file an earlier run has written
EarlierFile == Some(CsvLines(DataFrame(<<RecA>>), TRUE))

InitCsv ==
    /\ FunIdle
    /\ CrawlIdle
    /\ start \in {"absent", "empty", "header"}
    /\ file = CASE start = "absent" -> None
                [] start = "empty" -> Some(<<>>)
                [] start = "header" -> EarlierFile
    /\ disk \in {"ok", "OSError"}
    /\ calls = <<>>
    /\ loaded = None
    /\ since = IF start = "header" THEN 1 ELSE 0
    /\ overwrote = FALSE

Lines(f) == IF f = None THEN <<>> ELSE f[1]

\* the call record of a write with result r
CallRecord(name, data, r) ==
    [fn |-> name, data |-> data, ok |-> r.ok, before |-> file]

\* the records in the file's rows after a write with result r
SinceAfter(data, r, overwrites) ==
    IF ~r.ok THEN since
    ELSE IF overwrites THEN Len(data) ELSE since + Len(data)

Call_save_to_csv ==
    \E data \in Batches :
        LET r == save_to_csv(data, file, FALSE, disk) IN
        /\ Len(calls) < MaxCalls
        /\ calls' = Append(calls, CallRecord("save_to_csv", data, r))
        /\ file' = r.file
        /\ since' = SinceAfter(data, r, TRUE)
        /\ overwrote' = (overwrote \/ r.ok)
        /\ UNCHANGED <<disk, start, loaded, detailVars,
                   funVars, argVars, crawlVars, fetchVars, events>>

Call_append_books_to_csv ==
    \E batch \in Batches :
        LET r == append_books_to_csv(batch, file, disk) IN
        /\ Len(calls) < MaxCalls
        /\ calls' = Append(calls, CallRecord("append_books_to_csv", batch, r))
        /\ file' = r.file
        /\ since' = SinceAfter(batch, r, FALSE)
        /\ UNCHANGED <<overwrote, disk, start, loaded, detailVars,
                       funVars, argVars, crawlVars, fetchVars, events>>

Call_save_books_to_csv ==
    \E batch \in Batches :
        LET r == save_books_to_csv(batch, file, disk, Now(Len(calls))) IN
        /\ Len(calls) < MaxCalls
        /\ calls' = Append(calls, CallRecord("save_books_to_csv", batch, r))
        /\ file' = r.file
        /\ since' = SinceAfter(batch, r, TRUE)
        /\ overwrote' = (overwrote \/ r.ok)
        /\ UNCHANGED <<disk, start, loaded, detailVars,
                   funVars, argVars, crawlVars, fetchVars, events>>

Call_load_books_from_csv ==
    /\ Len(calls) < MaxCalls
    /\ calls' = Append(calls, [fn |-> "load_books_from_csv", data |-> <<>>,
                               ok |-> load_books_from_csv(file) # None,
                               before |-> file])
    /\ loaded' = load_books_from_csv(file)
    /\ UNCHANGED <<file, disk, start, since, overwrote, detailVars,
                   funVars, argVars, crawlVars, fetchVars, events>>

NextCsv ==
    \/ Call_save_to_csv
    \/ Call_append_books_to_csv
    \/ Call_save_books_to_csv
    \/ Call_load_books_from_csv

SpecCsv == InitCsv /\ [][NextCsv]_vars

(* ------------------------- claims on the crawl ------------------------ *)
EventsOf(kind) == SelectSeq(events, LAMBDA e : e[1] = kind)
PagesOf(kind) == [i \in 1..Len(EventsOf(kind)) |-> EventsOf(kind)[i][2]]

\* a record container with both of its fields
WellFormed(n) ==
    n.kind = "article" /\ n.h3 /\ n.a /\ n.title # None /\ n.price # None

\* the page holds at least one record
HoldsRecord(doc) ==
    doc # Missing /\ \E i \in 1..Len(doc[1]) : WellFormed(doc[1][i])

\* the records of a page: its well-formed containers, in document order
RECURSIVE RecordsOfNodes(_)
RecordsOfNodes(nodes) ==
    IF nodes = <<>> THEN <<>>
    ELSE (IF WellFormed(Head(nodes))
          THEN <<[Title |-> Strip(Head(nodes).title[1]),
                  Price |-> Strip(Head(nodes).price[1])]>>
          ELSE <<>>)
         \o RecordsOfNodes(Tail(nodes))

RecordsOf(doc) == IF doc = Missing THEN <<>> ELSE RecordsOfNodes(doc[1])

\* the records of pages from..to of the site, in ascending page order
RECURSIVE RecordsOfPages(_, _)
RecordsOfPages(from, to) ==
    IF from > to THEN <<>>
    ELSE RecordsOf(Served(from)) \o RecordsOfPages(from + 1, to)

\* a page that says "not found": the server has none, or its body says so
TerminalPage(p) == Served(p) \in {Missing, NotFoundPage}

\* a catalog of exactly K pages with records, none of which the termination
\* heuristic takes for the end, followed by a terminal page at K + 1
CatalogOf(K) ==
    /\ \A p \in 1..K : HoldsRecord(Served(p)) /\ ~is_page_not_found(Served(p))
    /\ TerminalPage(K + 1)

Stopped == pc \in {"done", "raised"}

\* every fetch_books_page call of the run got the page's document
NoFetchGaveUp == failures < retry_attempts

\* C1: an exhaustive crawl from page 1 over a catalog of exactly K >= 1 pages
\* with records, followed by a terminal page, returns the records of pages
\* 1..K in page order and in-page order after exactly K + 1 page fetches, the
\* last of page K + 1.  (Read in the claim's favour: pages 1..K are pages
\* the heuristic does not classify as the end, and the fetches of pages
\* 1..K do not run out of attempts.)
C1_ExhaustiveCrawl ==
    \A K \in 1..MaxPage :
        ( /\ entry = "scrape_all_pages" /\ start_page = 1
          /\ CatalogOf(K)
          /\ Stopped
          /\ (page <= K => NoFetchGaveUp) )
        => /\ pc = "done"
           /\ ret = RecordsOfPages(1, K)
           /\ PagesOf("fetch") = [i \in 1..(K + 1) |-> i]

\* C2: a bounded crawl never fetches a page above start_page + num_pages - 1
\* nor one below start_page
C2_BoundedFetchRange ==
    entry = "scrape_multiple_pages" =>
        \A i \in 1..Len(events) :
            events[i][1] = "fetch" =>
                /\ events[i][2] >= start_page
                /\ events[i][2] <= start_page + num_pages - 1

\* a bounded crawl of one page over a catalog of more real pages than that,
\* finished after fetching its last page
C2_Witness ==
    /\ entry = "scrape_multiple_pages" /\ pc = "done"
    /\ start_page = 1 /\ num_pages = 1
    /\ \A p \in 1..MaxPage : site[p] = Normal
    /\ PagesOf("fetch") = <<1>>
    /\ ret = RecordsOf(Normal)

\* C3: fetch_html never raises; it returns None once retry_attempts attempts
\* have failed, and gives up only then: every earlier failure is followed by
\* another attempt
C3_FetchFailureSignal ==
    /\ fpc # "raised"
    /\ fpc = "backoff" => failures <= retry_attempts - 1
    /\ fpc = "returned" =>
          /\ failures = retry_attempts => result = None
          /\ result = None => failures = retry_attempts /\ gets = retry_attempts

\* fetch_html with retry_attempts = 2 has returned None after two failed
\* attempts
C3_Witness ==
    /\ entry = "fetch_html" /\ retry_attempts = 2
    /\ fpc = "returned" /\ failures = 2 /\ result = None

\* the fetch, check and extract events of page p, in order
StepsOf(p) ==
    SelectSeq(events, LAMBDA e : e[2] = p /\ e[1] \in {"fetch", "check", "extract"})

IsPrefix(s, t) == Len(s) <= Len(t) /\ \A i \in 1..Len(s) : s[i] = t[i]

\* C4: in the exhaustive crawl each page goes through fetch, termination
\* check and extraction in that order; extraction is never run on a page that
\* failed to fetch or was classified end-of-catalog; the crawl stops at page p
\* exactly when it is DONE there because (a) the fetch of p failed, (b) p was
\* classified end-of-catalog or (c) extraction from p gave zero records;
\* otherwise the next fetch is of page p + 1
C4_CrawlStateMachine ==
    entry = "scrape_all_pages" =>
        /\ \A p \in start_page..page :
              IsPrefix(StepsOf(p), <<<<"fetch", p>>, <<"check", p>>, <<"extract", p>>>>)
        /\ \A i \in 1..Len(events) :
              events[i][1] = "extract" =>
                  /\ Served(events[i][2]) # Missing
                  /\ ~is_page_not_found(Served(events[i][2]))
        /\ PagesOf("fetch") \in
              {[i \in 1..n |-> start_page + i - 1] : n \in {page - start_page,
                                                            page - start_page + 1}}
        /\ Stopped =>
              /\ pc = "done"
              /\ \/ Falsy(html_content)
                 \/ is_page_not_found(html_content)
                 \/ /\ <<"extract", page>> \in {events[i] : i \in 1..Len(events)}
                    /\ ~books.raised /\ books.books = <<>>
        /\ (pc = "fetch" /\ page > start_page) =>
              /\ ~Falsy(html_content)
              /\ ~is_page_not_found(html_content)
              /\ books.books # <<>>

(* --------------- claims on is_page_not_found and the parser ----------- *)
\* the document holds the phrase "Page Not Found" in mixed case
HasNotFoundPhrase(doc) == \E i \in 1..Len(doc[1]) : doc[1][i] = NotFoundText

\* the document has a title element whose text contains 404
HasTitle404(doc) ==
    \E i \in 1..Len(doc[1]) :
        doc[1][i].kind = "title" /\ Contains(doc[1][i].chars, <<"4", "0", "4">>)

TrimmedLength(doc) == Len(Strip(Text(doc)))

\* a normal catalog page: at least one record container, not unusually
\* short, without the phrase and without 404 in its title
NormalCatalogPage(doc) ==
    /\ HoldsRecord(doc)
    /\ TrimmedLength(doc) >= ShortPageThreshold
    /\ ~HasNotFoundPhrase(doc)
    /\ ~HasTitle404(doc)

\* C5: is_page_not_found is true for absent markup, for markup with the
\* phrase "Page not found" in any letter case, for markup whose trimmed length
\* is below 500 and for markup whose title element's text contains 404; it is
\* false for a normal catalog page with at least one record container
C5_EndOfCatalogHeuristic ==
    fn = "is_page_not_found" =>
        /\ arg = None => found
        /\ arg # None =>
              /\ HasNotFoundPhrase(arg) => found
              /\ TrimmedLength(arg) < ShortPageThreshold => found
              /\ HasTitle404(arg) => found
              /\ NormalCatalogPage(arg) => ~found

\* C6: parse_books_from_html returns exactly one record per container that
\* has both a title and a price, in document order; a container missing
\* either (a missing title attribute included) contributes no record and
\* leaves the records of the other containers as they are
C6_OneRecordPerWellFormedContainer ==
    (fn = "parse_books_from_html" /\ ~parsed.raised) =>
        parsed.books = RecordsOf(arg)

(* --------------------------- claims on saver.py ----------------------- *)
call == calls[Len(calls)]
prev == calls[Len(calls) - 1]

ColumnNames == {Title, Price, Availability, Reviews, Price_Numeric, Scraped_At}

\* a line of column names
IsHeaderLine(line) ==
    line # <<>> /\ \A j \in 1..Len(line) : line[j] \in ColumnNames

\* a file with an established header
Established(f) ==
    f # None /\ f[1] # <<>> /\ IsHeaderLine(f[1][1])

\* the value record rec has under column name, the empty field without one
ValueOf(rec, name) ==
    IF InSeq(name, Keys(rec)) THEN rec[IndexIn(name, Keys(rec))][2] ELSE <<>>

\* line is the data row of rec under the columns cols
IsRowOf(line, rec, cols) ==
    /\ Len(line) = Len(cols)
    /\ \A j \in 1..Len(cols) : line[j] = ValueOf(rec, cols[j])

AppendedOnHeader ==
    /\ calls # <<>>
    /\ call.fn = "append_books_to_csv"
    /\ call.ok
    /\ Established(call.before)

Overwritten ==
    /\ calls # <<>>
    /\ call.fn = "save_to_csv"
    /\ call.ok

\* C7: a successful save_to_csv in append mode on a file with an established
\* header leaves the header and the prior rows as they were and adds exactly
\* len(rows) data rows, none of them a header; a successful save_to_csv in
\* overwrite mode leaves a header and the rows of that call, nothing else.
C7_AppendKeepsOverwriteReplaces ==
    /\ AppendedOnHeader =>
          LET old == call.before[1]
              new == Lines(file)
          IN /\ Len(new) = Len(old) + Len(call.data)
             /\ SubSeq(new, 1, Len(old)) = old
             /\ \A i \in (Len(old) + 1)..Len(new) :
                    /\ ~IsHeaderLine(new[i])
                    /\ IsRowOf(new[i], call.data[i - Len(old)], Columns(call.data))
    /\ Overwritten =>
          LET new == Lines(file) IN
          /\ Len(new) = 1 + Len(call.data)
          /\ IsHeaderLine(new[1])
          /\ new[1] = Columns(call.data)
          /\ \A i \in 1..Len(call.data) :
                 IsRowOf(new[i + 1], call.data[i], Columns(call.data))

\* an overwrite of two records, then an append of two onto its header
C7_Witness ==
    /\ Len(calls) >= 2
    /\ prev.fn = "save_to_csv" /\ prev.ok /\ Len(prev.data) = 2
    /\ AppendedOnHeader /\ Len(call.data) = 2
    /\ Len(Lines(file)) = 5

\* one header line, then one data line per record written
OneHeaderThenRows ==
    LET lines == Lines(file) IN
    /\ Len(lines) = 1 + since
    /\ IsHeaderLine(lines[1])
    /\ \A i \in 2..Len(lines) : ~IsHeaderLine(lines[i])

\* the last call, an append that succeeded, wrote a header
HeaderWritten ==
    LET old == Lines(call.before)
        new == Lines(file)
    IN /\ Len(new) = Len(old) + Len(call.data) + 1
       /\ new[Len(old) + 1] = Columns(call.data)

HeaderIffAbsent ==
    (calls # <<>> /\ call.fn = "append_books_to_csv" /\ call.ok)
        => (HeaderWritten <=> call.before = None)

\* a write has succeeded on the destination, or it started with a header
SomethingWritten == file # None /\ file # Some(<<>>)

\* C8, as stated: after successful overwrites and appends on a destination
\* that started absent, with a header, or present but empty, the file is one
\* header row and one data row per record written since the last overwrite,
\* and an append writes the header iff the destination did not exist.
C8_OneHeaderFromAnyStart ==
    /\ SomethingWritten => OneHeaderThenRows
    /\ HeaderIffAbsent

\* C8, amended: the same, for a destination that started absent or with a
\* header, and for one that started present but empty once an overwrite has
\* succeeded on it.
C8_OneHeaderUnlessStartedEmpty ==
    /\ (SomethingWritten /\ (start # "empty" \/ overwrote)) => OneHeaderThenRows
    /\ HeaderIffAbsent

\* two appends that succeeded on a destination that started absent: the
\* first wrote the header, the second did not
C8_Witness ==
    /\ start = "absent"
    /\ Len(calls) >= 2
    /\ prev.fn = "append_books_to_csv" /\ prev.ok /\ prev.before = None
    /\ call.fn = "append_books_to_csv" /\ call.ok
    /\ since = Len(prev.data) + Len(call.data)

OnlyBookWrites ==
    \A k \in 1..Len(calls) :
        calls[k].fn \in {"save_books_to_csv", "append_books_to_csv"}

\* a field that holds a floating-point value
IsFloatField(s) ==
    /\ s \notin NaValues
    /\ ParseFloat(s) # None
    /\ ParseFloat(s)[1] \notin {<<"n", "a", "n">>, <<"i", "n", "f">>, <<"-", "i", "n", "f">>}

\* C9: after save_books_to_csv and append_books_to_csv calls on one
\* destination, a file whose header has Price_Numeric holds a floating-point
\* value in that column in every data row.
C9_PriceNumericAlwaysFloat ==
    (OnlyBookWrites /\ Established(file) /\ InSeq(Price_Numeric, file[1][1])) =>
        LET j == IndexIn(Price_Numeric, file[1][1]) IN
        \A i \in 2..Len(file[1]) :
            /\ j <= Len(file[1][i])
            /\ IsFloatField(file[1][i][j])

\* a load that follows a save_books_to_csv of a list of records on a file
\* system that takes writes
LoadedAfterSave ==
    /\ Len(calls) >= 2
    /\ disk = "ok"
    /\ prev.fn = "save_books_to_csv" /\ prev.data # <<>>
    /\ call.fn = "load_books_from_csv"

\* C10: save_books_to_csv of N >= 1 records followed by load_books_from_csv
\* succeeds and gives N rows in the same order, each with the original text
\* in every column its record had, and no column but those of the records,
\* Price_Numeric and Scraped_At.
C10_RoundTrip ==
    LoadedAfterSave =>
        /\ prev.ok
        /\ loaded # None
        /\ Len(loaded[1].rows) = Len(prev.data)
        /\ \A j \in 1..Len(loaded[1].columns) :
               \/ InSeq(loaded[1].columns[j], Columns(prev.data))
               \/ loaded[1].columns[j] \in {Price_Numeric, Scraped_At}
        /\ \A i \in 1..Len(prev.data) : \A k \in 1..Len(prev.data[i]) :
               LET name == prev.data[i][k][1] IN
               /\ InSeq(name, loaded[1].columns)
               /\ CellText(loaded[1].rows[i][IndexIn(name, loaded[1].columns)])
                      = prev.data[i][k][2]

(* ------------------------- claims on clean_price ---------------------- *)
\* the text without the currency glyphs and the whitespace around it
BareNumeral(s) == Strip(SelectSeq(s, LAMBDA c : c \notin CurrencyGlyphs))

\* digits with at most one point among them, and a digit at least
LooksNumeric(s) ==
    /\ \E i \in 1..Len(s) : s[i] \in Digits
    /\ \A i \in 1..Len(s) : s[i] \in Digits \cup {"."}
    /\ Cardinality({i \in 1..Len(s) : s[i] = "."}) <= 1

\* C11: clean_price raises for no input; it returns the number the text
\* holds once the glyphs and the whitespace around it are taken off, 0.0 for
\* a text that holds none, and 51.77, 0.0, 0.0 and 12.0 for the four
\* examples.
C11_CleanPriceNeverRaises ==
    (fn = "clean_price") =>
        /\ ~number.raised
        /\ arg.t = "str" =>
              /\ number.value = clean_price(StrCell(BareNumeral(arg.v))).value
              /\ ~LooksNumeric(BareNumeral(arg.v)) => number.value = <<"0", ".", "0">>
              /\ LooksNumeric(BareNumeral(arg.v)) =>
                    number.value = ParseFloat(BareNumeral(arg.v))[1]
        /\ arg = StrCell(<<"GBP", "5", "1", ".", "7", "7">>) => number.value = <<"5", "1", ".", "7", "7">>
        /\ arg = StrCell(<<>>) => number.value = <<"0", ".", "0">>
        /\ arg = StrCell(<<"n", "o", "t", " ", "a", " ", "p", "r", "i", "c", "e">>) => number.value = <<"0", ".", "0">>
        /\ arg = StrCell(<<"A^", "GBP", "1", "2", ".", "0", "0">>) => number.value = <<"1", "2", ".", "0">>

(* ----------------------- more claims on saver.py ---------------------- *)
WriteCalls == {"save_to_csv", "append_books_to_csv", "save_books_to_csv"}

\* C13: a save_to_csv (overwriting or appending) or save_books_to_csv that
\* is given no record, or whose write meets an I/O error, returns False; with
\* no record the destination is afterwards what it was before: absent if it
\* was absent, the same lines if it was there.
C13_EmptyOrFailedWriteReturnsFalse ==
    (calls # <<>> /\ call.fn \in WriteCalls) =>
        /\ call.data = <<>> => (~call.ok /\ file = call.before)
        /\ disk # "ok" => ~call.ok

\* a write of records that met the I/O error, then a write of no record on
\* the file that is there
C13_Witness ==
    /\ Len(calls) >= 2
    /\ disk = "OSError"
    /\ prev.fn = "save_to_csv" /\ prev.data # <<>> /\ ~prev.ok
    /\ call.fn = "save_books_to_csv" /\ call.data = <<>> /\ ~call.ok
    /\ file = EarlierFile

RichWritten ==
    /\ calls # <<>>
    /\ call.fn = "save_books_to_csv"
    /\ call.ok

HasPrice(rec) == InSeq(Price, Keys(rec))

\* the field of line i of the file under the column name
FieldUnder(name, i) ==
    Lines(file)[i][IndexIn(name, Lines(file)[1])]

\* the file is a header and one line per record of the call, each holding
\* the record's own values under the record's columns
ReplacedByCall ==
    LET new == Lines(file) IN
    /\ Len(new) = 1 + Len(call.data)
    /\ IsHeaderLine(new[1])
    /\ \A i \in 1..Len(call.data) : \A k \in 1..Len(call.data[i]) :
           /\ InSeq(call.data[i][k][1], new[1])
           /\ FieldUnder(call.data[i][k][1], i + 1) = call.data[i][k][2]

\* every line carries the same, non-empty Scraped_At
OneTimestamp ==
    /\ InSeq(Scraped_At, Lines(file)[1])
    /\ \A i \in 2..Len(Lines(file)) :
           /\ FieldUnder(Scraped_At, i) # <<>>
           /\ FieldUnder(Scraped_At, i) = FieldUnder(Scraped_At, 2)

Crawling == entry \in {"scrape_all_pages", "scrape_multiple_pages"} /\ pc # "call"

LastPage == start_page + num_pages - 1

\* the last page the crawl has aggregated: in bounded mode the loop variable
\* stays on the last page asked for once that page is aggregated
LastAggregated ==
    IF entry = "scrape_multiple_pages" /\ pc = "done" /\ books.books # <<>>
    THEN page ELSE page - 1

\* C17: at every point of a crawl in either mode all_books is the records
\* of the pages start_page..p-1 completed so far, page after page and in
\* each page's own order; a later page that fails, is terminal or is empty
\* leaves them as they are, and they are what the crawl returns.
C17_AggregateIsConcatenation ==
    Crawling =>
        /\ all_books = RecordsOfPages(start_page, LastAggregated)
        /\ pc = "done" => ret = all_books

\* an exhaustive crawl that aggregated two pages and stopped at the third,
\* which the server does not have
C17_Witness ==
    /\ entry = "scrape_all_pages" /\ start_page = 1
    /\ site[1] = Normal /\ site[2] = Normal
    /\ pc = "done" /\ page = 3
    /\ ret = RecordsOf(Normal) \o RecordsOf(Normal)
    /\ Len(ret) = 4

\* the attempts of this fetch_html call that succeeded
Successes == gets - failures

\* C18: one fetch_html call issues at most retry_attempts GET requests, none
\* after one that succeeded, and returns the markup of that one; it sleeps
\* only after a failed attempt that another attempt follows: not before the
\* first attempt, not after a success, not after the last failed attempt.
C18_BoundedAttemptsBackoffBetween ==
    /\ gets <= retry_attempts
    /\ Successes \in {0, 1}
    /\ Successes = 1 =>
          /\ fpc \in {"returned", "idle"}
          /\ result = Served(url) /\ result # None
    /\ fpc = "get" => attempt = gets /\ failures = gets
    /\ fpc = "backoff" =>
          /\ attempt = gets - 1 /\ failures = gets
          /\ gets < retry_attempts
    /\ fpc \in {"returned", "idle"} =>
          attempt = IF gets = 0 THEN 0 ELSE gets - 1
    /\ entry = "fetch_html" => Len(EventsOf("backoff")) = attempt

\* fetch_html with retry_attempts = 3: two failed attempts, a sleep after
\* each, and a third attempt that succeeded
C18_Witness ==
    /\ entry = "fetch_html" /\ retry_attempts = 3
    /\ fpc = "returned"
    /\ gets = 3 /\ failures = 2 /\ attempt = 2
    /\ result = Normal
    /\ Len(EventsOf("backoff")) = 2

\* the pages in from..to below the page lim, in ascending order
RECURSIVE PagesBelow(_, _, _)
PagesBelow(from, to, lim) ==
    IF from > to THEN <<>>
    ELSE (IF from < lim THEN <<from>> ELSE <<>>) \o PagesBelow(from + 1, to, lim)

\* every delay stands right before the fetch of the next page, or is the
\* last thing done while that fetch is still to come
DelaysSeparateFetches ==
    \A i \in 1..Len(events) :
        events[i][1] = "delay" =>
            IF i < Len(events)
            THEN events[i + 1] = <<"fetch", events[i][2] + 1>>
            ELSE pc = "fetch" /\ page = events[i][2] + 1

\* C19: a delay is observed only between two page fetches.  In a bounded run
\* one delay follows every aggregated page but the last page asked for, and
\* none follows a page that stops the run; in an exhaustive run one delay
\* follows every aggregated page, the last aggregated one included, and none
\* follows the fetch that ends the run.
C19_DelaysBetweenPages ==
    Crawling =>
        /\ DelaysSeparateFetches
        /\ entry = "scrape_multiple_pages" =>
              PagesOf("delay") = PagesBelow(start_page, LastAggregated, LastPage)
        /\ entry = "scrape_all_pages" /\ pc # "extend" =>
              PagesOf("delay") = PagesBelow(start_page, LastAggregated, page)
        /\ Stopped /\ events # <<>> => events[Len(events)][1] # "delay"

\* a bounded run of two pages that aggregated both: one delay, after the
\* first page
C19_Witness ==
    /\ entry = "scrape_multiple_pages" /\ start_page = 1 /\ num_pages = 2
    /\ pc = "done" /\ page = 2
    /\ Len(all_books) = 4
    /\ PagesOf("delay") = <<1>>

\* what scrape_multiple_pages stopped on: the page it fetched last
StoppedEarly ==
    /\ entry = "scrape_multiple_pages"
    /\ Stopped
    /\ PagesOf("fetch") # <<>>
    /\ page < LastPage

\* C14: a bounded crawl stops before its last page only on a page whose
\* fetch failed or that yielded no record, and it returns then; the
\* end-of-catalog check is never made, so a fetched page with a record is
\* aggregated whatever is_page_not_found says of it.
C14_BoundedStopsOnlyOnFailureOrEmpty ==
    entry = "scrape_multiple_pages" =>
        /\ EventsOf("check") = <<>>
        /\ StoppedEarly =>
              /\ pc = "done"
              /\ \/ Falsy(html_content)
                 \/ books = NoBooks /\ RecordsOf(html_content) = <<>>
        /\ (pc = "done" /\ LastAggregated >= start_page) =>
              all_books = RecordsOfPages(start_page, LastAggregated)

(* ---------------------- claims on fetch_book_detail ------------------- *)
\* a URL with a scheme
IsAbsolute(u) == StartsWith(u, <<"h", "t", "t", "p", ":", "/", "/">>) \/ StartsWith(u, <<"h", "t", "t", "p", "s", ":", "/", "/">>)

\* u without its leading "../" segments
RECURSIVE WithoutParentSegments(_)
WithoutParentSegments(u) ==
    IF StartsWith(u, <<".", ".", "/">>)
    THEN WithoutParentSegments(SubSeq(u, 4, Len(u)))
    ELSE u

\* C16: fetch_book_detail fetches an absolute URL as it is, and for a
\* relative URL the catalog base followed by the URL without its leading
\* "../" segments: no relative URL goes out as it came, and nothing else of
\* its path is taken off.
C16_DetailUrlResolution ==
    (fn = "fetch_book_detail") =>
        requested = IF IsAbsolute(arg) THEN arg
                    ELSE base_url \o WithoutParentSegments(arg)

(* ------------------------ claims on the extractors -------------------- *)
\* the links of a page: the hrefs of the containers that have one
RECURSIVE LinksOfNodes(_)
LinksOfNodes(nodes) ==
    IF nodes = <<>> THEN <<>>
    ELSE LET n == Head(nodes) IN
         (IF n.kind = "article" /\ n.h3 /\ n.a /\ n.href \notin {None, Some(<<>>)}
          THEN <<n.href[1]>> ELSE <<>>)
         \o LinksOfNodes(Tail(nodes))

LinksOf(doc) == IF doc = None THEN <<>> ELSE LinksOfNodes(doc[1])

ProductsOf(doc) ==
    IF doc = None THEN <<>> ELSE SelectSeq(doc[1], LAMBDA n : n.kind = "product")

\* some product of the page has the element
Somewhere(doc, Has(_)) == doc # None /\ \E i \in 1..Len(doc[1]) : Has(doc[1][i])

HasKey(rec, key) == InSeq(key, Keys(rec))

NoKeyTwice(rec) ==
    \A i, j \in 1..Len(rec) : rec[i][1] = rec[j][1] => i = j

\* C15: no extractor raises on a markup that lacks an expected element, a
\* container without its heading or its link included.  parse_books_from_html
\* gives the records of the containers that have both fields and drops the
\* others; get_book_urls gives the links of the containers that have one;
\* parse_book_details gives a dictionary with a key for each element that is
\* there and none for one that is not.
C15_ExtractorsNeverRaise ==
    /\ fn = "parse_books_from_html" =>
          ~parsed.raised /\ parsed.books = RecordsOf(arg)
    /\ fn = "get_book_urls" =>
          ~urls.raised /\ urls.urls = LinksOf(arg)
    /\ fn = "parse_book_details" =>
          /\ NoKeyTwice(details)
          /\ Somewhere(arg, HasH1) => HasKey(details, Title)
          /\ Somewhere(arg, HasPriceElement) => HasKey(details, Price)
          /\ Somewhere(arg, HasAvailability) => HasKey(details, Availability)
          /\ ~Somewhere(arg, HasTable) =>
                /\ HasKey(details, Title) => Somewhere(arg, HasH1)
                /\ HasKey(details, Price) => Somewhere(arg, HasPriceElement)
                /\ HasKey(details, Availability) => Somewhere(arg, HasAvailability)
                /\ HasKey(details, Description) => Somewhere(arg, HasDescription)
                /\ HasKey(details, Rating) => Somewhere(arg, HasRating)
                /\ \A k \in 1..Len(details) :
                       details[k][1] \in {Title, Price, Availability, Description, Rating}

(* ---------------------- claims on scrape_book_details ----------------- *)
\* the URL a link of the catalog stands for
Resolve(u) == IF IsAbsolute(u) THEN u ELSE base_url \o WithoutParentSegments(u)

\* the DetailRecord of the page behind link u: the texts of its elements
DetailRecordOf(u) == parse_book_details(pages[Resolve(u)])

\* the DetailRecords of the items, in order, that were fetched and hold one
RECURSIVE SuccessfulRecords(_, _)
SuccessfulRecords(links, fetched) ==
    IF fetched = <<>> THEN <<>>
    ELSE (IF DetailRecordOf(links[Head(fetched)]) # <<>>
          THEN <<DetailRecordOf(links[Head(fetched)])>> ELSE <<>>)
         \o SuccessfulRecords(links, Tail(fetched))

\* the items attempted so far
Attempted == IF pc = "detail" THEN idx - 1 ELSE Len(book_urls)

\* C12: scrape_book_details fetches page 1 once, takes the first
\* max_details links of it in link order, and attempts every one of them,
\* fetch then extraction, whatever became of the ones before; it never
\* raises, and its result is the DetailRecords of the links whose fetch and
\* extraction succeeded, in link order.
C12_DetailBatchNeverAborted ==
    (entry = "scrape_book_details") =>
        /\ pc # "raised"
        /\ PagesOf("fetch") \in {<<>>, <<1>>}
        /\ pc \in {"detail", "done"} =>
              /\ Len(book_urls) <= max_details
              /\ ~Falsy(html_content) =>
                    /\ IsPrefix(book_urls, LinksOf(html_content))
                    /\ Len(book_urls) = max_details
                          \/ book_urls = LinksOf(html_content)
              /\ PagesOf("detail") = [k \in 1..Attempted |-> k]
              /\ detailed_books = SuccessfulRecords(book_urls, PagesOf("got"))
        /\ pc = "done" => ret = detailed_books

(* --------------------- claims on parse_book_details ------------------- *)
\* the first node of the page, in document order, that has the element
FirstElement(doc, Has(_)) ==
    doc[1][CHOOSE i \in 1..Len(doc[1]) :
               Has(doc[1][i]) /\ \A k \in 1..(i - 1) : ~Has(doc[1][k])]

\* the value the record holds under the key
DetailValue(rec, key) == rec[IndexIn(key, Keys(rec))][2]

\* the rows of the page's table that have both cells
CompleteRows(doc) ==
    IF ~Somewhere(doc, HasTable) THEN <<>>
    ELSE SelectSeq(FirstElement(doc, HasTable).table[1],
                   LAMBDA row : row.th # None /\ row.td # None)

\* C21: whatever rows the specification table holds, the DetailRecord's
\* Title, Price and Availability are the texts of the heading, the price
\* element and the availability paragraph whenever those are on the page;
\* the rows of the table only add the pairs of their own header and data.
C21_FixedFieldsNotReplacedByRows ==
    (fn = "parse_book_details" /\ arg # None) =>
        /\ Somewhere(arg, HasH1) =>
              /\ HasKey(details, Title)
              /\ DetailValue(details, Title) = Strip(FirstElement(arg, HasH1).h1[1])
        /\ Somewhere(arg, HasPriceElement) =>
              /\ HasKey(details, Price)
              /\ DetailValue(details, Price) =
                    Strip(FirstElement(arg, HasPriceElement).price[1])
        /\ Somewhere(arg, HasAvailability) =>
              /\ HasKey(details, Availability)
              /\ DetailValue(details, Availability) =
                    Strip(FirstElement(arg, HasAvailability).availability[1])
        /\ \A k \in 1..Len(CompleteRows(arg)) :
              HasKey(details, Strip(CompleteRows(arg)[k].th[1]))

(* ----------------------- claims on termination ------------------------ *)
\* some page from start_page on ends the crawl: it is not there, it reads as
\* the end of the catalog, or it holds no record
SomeEndAhead ==
    \E p \in start_page..(MaxPage + 1) :
        \/ Served(p) = Missing
        \/ is_page_not_found(Served(p))
        \/ RecordsOf(Served(p)) = <<>>

\* the pages fetched so far are start_page, start_page + 1, ... , each once
FetchedInSequence ==
    PagesOf("fetch") = [k \in 1..Len(PagesOf("fetch")) |-> start_page + k - 1]

\* C22: an exhaustive crawl over a site that has a page, at or after
\* start_page, that fails to fetch, reads as end-of-catalog or holds no
\* record, eventually reaches DONE and returns its aggregate; each fetch of it
\* makes at most retry_attempts attempts, and the pages fetched are
\* start_page, start_page + 1, ... in that order, none of them twice.
C22_ExhaustiveCrawlTerminates ==
    /\ [](entry = "scrape_all_pages" =>
              /\ gets <= retry_attempts
              /\ FetchedInSequence)
    /\ (entry = "scrape_all_pages" /\ SomeEndAhead)
           ~> (pc = "done" /\ ret = all_books)
====
